---------------------------- MODULE Spec2Model ----------------------------
(***************************************************************************)
(* Egypt monthly inflation forecaster (calculate_forecast.py), the news    *)
(* scrapers (scrape.py, scraper_with_sentiment.py) and the taxi meter      *)
(* endpoint (app.py).  The three programs share no state; each has its own *)
(* specification below.                                                    *)
(*                                                                         *)
(* Numbers.  The script computes in binary floating point.  Here every     *)
(* percentage and every sentiment score is a fixed-point integer counting  *)
(* units of 10^-5 (ONE is 1.0); a weight is an integer number of           *)
(* hundredths.  A product or a mean that is not a whole number of units is *)
(* rounded to the nearest unit (RoundDiv).  NaN is pandas' missing value:  *)
(* it is absorbing for arithmetic.                                         *)
(*                                                                         *)
(* Dates.  A month is the integer 12*(year-2025)+month (2025-06 is 6,      *)
(* 2026-01 is 13); a first-of-month timestamp is its month.  A publication *)
(* day is 100*month+day (2025-06-10 is 610).                               *)
(***************************************************************************)
EXTENDS Integers, Sequences, FiniteSets

VARIABLES
    pc,                     \* position of the forecast script ("fn", "scrape": not running)
    inflation_df,           \* rows [date, inflation] of MONTHLY_INFLATION
    fetch_outcome,          \* how the try block ended ("" before it ran)
    arabic_monthly,         \* rows [date, sentiment], one per month
    merged,                 \* rows [date, inflation, sentiment]
    sentiment_lags,         \* initial lag vectors
    inflation_lags,
    forecasted_sentiment,   \* the loop's working copies
    forecasted_inflation,
    month_ahead,            \* the loop variable (0 before the loop)
    forecasts,              \* rows appended by the loop
    calls,                  \* log of the arguments and results of calculate_forecast
    combined,               \* the output table
    fn_args,                \* pure-function harness: the inputs
    fn_ret,                 \* pure-function harness: the result (<<>> before the call)
    csv_file,               \* the scrapers' news CSV: [exists, rows], a row being its url
    last_run,               \* log of the last scrape_and_update run (<<>> before any)
    run_count               \* scrape_and_update runs so far

script_vars == <<pc, inflation_df, fetch_outcome, arabic_monthly, merged, sentiment_lags,
                 inflation_lags, forecasted_sentiment, forecasted_inflation,
                 month_ahead, forecasts, calls, combined>>
fn_vars == <<fn_args, fn_ret>>
vars == <<pc, inflation_df, fetch_outcome, arabic_monthly, merged, sentiment_lags,
          inflation_lags, forecasted_sentiment, forecasted_inflation,
          month_ahead, forecasts, calls, combined, fn_args, fn_ret,
          csv_file, last_run, run_count>>
scrape_vars == <<csv_file, last_run, run_count>>

\* the scrapers have not run and there is no CSV
ScrapeIdle ==
    /\ csv_file = [exists |-> FALSE, rows |-> <<>>]
    /\ last_run = <<>>
    /\ run_count = 0

---------------------------------------------------------------------------
(* Fixed-point arithmetic *)

ONE == 100 * 1000
TENTH == ONE \div 10
NaN == 0 - (1000 * 1000 * 1000)

IsNaN(x) == x = NaN

\* a / b to the nearest unit, b > 0 (ties upward)
RoundDiv(a, b) == (2 * a + b) \div (2 * b)

Add(x, y) == IF IsNaN(x) \/ IsNaN(y) THEN NaN ELSE x + y

\* Python's sum() over a list of floats, left to right from 0
RECURSIVE SumSeq(_)
SumSeq(s) == IF s = <<>> THEN 0 ELSE Add(SumSeq(SubSeq(s, 1, Len(s) - 1)), s[Len(s)])

Min2(a, b) == IF a < b THEN a ELSE b
Max2(a, b) == IF a > b THEN a ELSE b

Reverse(s) == [k \in 1..Len(s) |-> s[Len(s) + 1 - k]]
Repeat(v, n) == [k \in 1..n |-> v]
\* list[:-1]
DropLast(s) == SubSeq(s, 1, Len(s) - 1)
Column(rows, f) == [k \in 1..Len(rows) |-> rows[k][f]]

\* the elements of a finite set of integers, ascending
RECURSIVE SortedSeq(_)
SortedSeq(S) ==
    IF S = {} THEN <<>>
    ELSE LET m == CHOOSE x \in S : \A y \in S : x <= y
         IN <<m>> \o SortedSeq(S \ {m})

---------------------------------------------------------------------------
(* Inputs *)

\* the table in the source
MONTHLY_INFLATION ==
    << [date |-> 6,  inflation |-> 139 * TENTH],
       [date |-> 7,  inflation |-> 131 * TENTH],
       [date |-> 8,  inflation |-> 120 * TENTH],
       [date |-> 9,  inflation |-> 117 * TENTH],
       [date |-> 10, inflation |-> 125 * TENTH],
       [date |-> 11, inflation |-> 123 * TENTH],
       [date |-> 12, inflation |-> 123 * TENTH] >>

\* The table is maintained by hand.  Besides the table as it stands, the
\* model runs the script on tables that start earlier or later: the months
\* 2025-03 .. 2025-05 followed by the table, and suffixes of that.
EarlierMonths ==
    << [date |-> 3, inflation |-> 136 * TENTH],
       [date |-> 4, inflation |-> 139 * TENTH],
       [date |-> 5, inflation |-> 168 * TENTH] >>

HistoryLengths == {1, 3, 7, 10}

Histories ==
    LET all == EarlierMonths \o MONTHLY_INFLATION
    IN { SubSeq(all, Len(all) - n + 1, Len(all)) : n \in HistoryLengths }

\* The news CSV: rows [date_published, sentiment_label].
MaxArticles == 3
Labels == {"positive", "negative", "neutral"}
Days == {210, 610, 620, 1105, 1303}
Articles == [date : Days, label : Labels]
CsvFiles == UNION { [1..n -> Articles] : n \in 0..MaxArticles }

---------------------------------------------------------------------------
(* Sentiment: daily net score, 7-row trailing mean, monthly mean *)

\* arabic_df[arabic_df['sentiment_label'] != 'neutral']
DropNeutral(csv) == SelectSeq(csv, LAMBDA r : r.label # "neutral")

CountLabel(df, d, l) == Cardinality({k \in 1..Len(df) : df[k].date = d /\ df[k].label = l})

\* groupby('date'): one row per day, days ascending; net = positives - negatives
daily_net(df) ==
    LET days == SortedSeq({df[k].date : k \in 1..Len(df)})
    IN [k \in 1..Len(days) |->
           [date |-> days[k],
            net  |-> CountLabel(df, days[k], "positive") - CountLabel(df, days[k], "negative")]]

ROLLING_WINDOW == 7

\* rolling(7, min_periods=1).mean() at row k
RollingMean(daily, k) ==
    LET lo == Max2(1, k - ROLLING_WINDOW + 1)
    IN RoundDiv(ONE * SumSeq([j \in 1..(k - lo + 1) |-> daily[lo + j - 1].net]), k - lo + 1)

WithMa(daily) ==
    [k \in 1..Len(daily) |->
        [date |-> daily[k].date, net |-> daily[k].net, ma |-> RollingMean(daily, k)]]

\* dt.to_period('M')
YearMonth(day) == day \div 100

\* The monthly aggregation left out: one row per day, dated by its month.
MonthlyMean_per_day(daily_ma) ==
    [k \in 1..Len(daily_ma) |->
        [date |-> YearMonth(daily_ma[k].date), sentiment |-> daily_ma[k].ma]]

\* groupby('year_month')['ma'].mean(), then to_timestamp()
MonthlyMean(daily_ma) ==
    LET months == SortedSeq({YearMonth(daily_ma[k].date) : k \in 1..Len(daily_ma)})
        InMonth(m) == SelectSeq(daily_ma, LAMBDA r : YearMonth(r.date) = m)
    IN [k \in 1..Len(months) |->
           [date      |-> months[k],
            sentiment |-> RoundDiv(SumSeq(Column(InMonth(months[k]), "ma")),
                                   Len(InMonth(months[k])))]]

FALLBACK_SENTIMENT == 5 * ONE
FALLBACK_PERIODS == 7
FALLBACK_START == 6

\* the except branch: 7 months from 2025-06-01, all 5.0
FallbackMonthly ==
    [k \in 1..FALLBACK_PERIODS |->
        [date |-> FALLBACK_START + k - 1, sentiment |-> FALLBACK_SENTIMENT]]

\* The try block without its except branch: whatever was aggregated is kept.
FetchSentiment_no_fallback(fetched, csv) ==
    IF fetched THEN MonthlyMean(WithMa(daily_net(DropNeutral(csv)))) ELSE <<>>

\* The try block.  fetched = FALSE is any failure of read_csv or of the
\* column accesses; with no non-neutral row left, .iloc[-1] on the empty
\* monthly table raises.
FetchSentiment(fetched, csv) ==
    LET monthly == MonthlyMean(WithMa(daily_net(DropNeutral(csv))))
    IN IF fetched /\ monthly # <<>> THEN monthly ELSE FallbackMonthly

---------------------------------------------------------------------------
(* Merge and fill *)

\* inflation_df.merge(arabic_monthly[['date','sentiment']], on='date', how='left')
RECURSIVE LeftMerge(_, _)
LeftMerge(left, right) ==
    IF left = <<>> THEN <<>>
    ELSE LET row == Head(left)
             hits == SelectSeq(right, LAMBDA r : r.date = row.date)
             out == IF hits = <<>>
                    THEN << [date |-> row.date, inflation |-> row.inflation,
                             sentiment |-> NaN] >>
                    ELSE [k \in 1..Len(hits) |->
                             [date |-> row.date, inflation |-> row.inflation,
                              sentiment |-> hits[k].sentiment]]
         IN out \o LeftMerge(Tail(left), right)

\* Series.ffill(): a missing value takes the last value before it, if any
RECURSIVE ffill(_)
ffill(s) ==
    IF Len(s) <= 1 THEN s
    ELSE LET front == ffill(DropLast(s))
             x == s[Len(s)]
         IN Append(front, IF IsNaN(x) THEN front[Len(front)] ELSE x)

\* Series.bfill(): a missing value takes the next value after it, if any
bfill(s) == Reverse(ffill(Reverse(s)))

MergeAndFill(infl, monthly) ==
    LET m == LeftMerge(infl, monthly)
        filled == bfill(ffill(Column(m, "sentiment")))
    IN [k \in 1..Len(m) |->
           [date |-> m[k].date, inflation |-> m[k].inflation, sentiment |-> filled[k]]]

---------------------------------------------------------------------------
(* Lag vectors and the single-step forecast *)

\* weights in hundredths
SENTIMENT_WEIGHTS == <<100, 70, 49, 34, 24, 17, 12, 8, 6>>
INFLATION_WEIGHTS == <<60, 25, 10, 5>>
\* 0.03, in hundredths
SCALE_FACTOR == 3
INTERCEPT == ONE \div 2
HUNDRED == 10 * 10

SENTIMENT_LAGS == 9
INFLATION_LAGS == 4

\* get_lags without the [::-1]: the tail is returned oldest first
get_lags_oldest_first(series, n_lags) ==
    IF Len(series) >= n_lags
    THEN SubSeq(series, Len(series) - n_lags + 1, Len(series))
    ELSE LET last_val == IF Len(series) > 0 THEN series[Len(series)] ELSE 0
         IN Repeat(last_val, n_lags)

\* get_lags that keeps the observations of a short series and pads with the oldest
get_lags_keep_observed(series, n_lags) ==
    IF Len(series) >= n_lags
    THEN Reverse(SubSeq(series, Len(series) - n_lags + 1, Len(series)))
    ELSE IF Len(series) > 0
         THEN Reverse(series) \o Repeat(series[1], n_lags - Len(series))
         ELSE Repeat(0, n_lags)

\* get_lags that builds only the missing positions of a short series
get_lags_pad_missing(series, n_lags) ==
    IF Len(series) >= n_lags
    THEN Reverse(SubSeq(series, Len(series) - n_lags + 1, Len(series)))
    ELSE LET last_val == IF Len(series) > 0 THEN series[Len(series)] ELSE 0
         IN Repeat(last_val, n_lags - Len(series))

\* get_lags that pads a short series with the default instead of its last value
get_lags_pad_default(series, n_lags) ==
    IF Len(series) >= n_lags
    THEN Reverse(SubSeq(series, Len(series) - n_lags + 1, Len(series)))
    ELSE Repeat(0, n_lags)

\* series.tail(n_lags).tolist()[::-1], or n_lags copies of the last value
get_lags(series, n_lags) ==
    IF Len(series) >= n_lags
    THEN Reverse(SubSeq(series, Len(series) - n_lags + 1, Len(series)))
    ELSE LET last_val == IF Len(series) > 0 THEN series[Len(series)] ELSE 0
         IN Repeat(last_val, n_lags)

Mul(w, x) == IF IsNaN(x) THEN NaN ELSE w * x

\* sum(w * x for w, x in zip(weights, lags)): zip stops at the shorter list.
\* The result counts hundredths of a unit.
WeightedSum(weights, lags) ==
    SumSeq([k \in 1..Min2(Len(weights), Len(lags)) |-> Mul(weights[k], lags[k])])

Scale(x, num, den) == IF IsNaN(x) THEN NaN ELSE RoundDiv(num * x, den)

\* sum(w * s ...) * SCALE_FACTOR
sentiment_effect(s_lags) ==
    Scale(WeightedSum(SENTIMENT_WEIGHTS, s_lags), SCALE_FACTOR, HUNDRED * HUNDRED)

\* sum(w * i ...)
inflation_momentum(i_lags) ==
    Scale(WeightedSum(INFLATION_WEIGHTS, i_lags), 1, HUNDRED)

\* calculate_forecast without the scale factor on the sentiment term
calculate_forecast_unscaled(s_lags, i_lags) ==
    Add(Add(INTERCEPT, Scale(WeightedSum(SENTIMENT_WEIGHTS, s_lags), 1, HUNDRED)),
        inflation_momentum(i_lags))

\* calculate_forecast without the intercept
calculate_forecast_no_intercept(s_lags, i_lags) ==
    Add(sentiment_effect(s_lags), inflation_momentum(i_lags))

calculate_forecast(s_lags, i_lags) ==
    Add(Add(INTERCEPT, sentiment_effect(s_lags)), inflation_momentum(i_lags))

---------------------------------------------------------------------------
(* Uncertainty band *)

\* the largest r in lo..hi with r * r <= n
RECURSIVE SqrtSearch(_, _, _)
SqrtSearch(n, lo, hi) ==
    IF lo >= hi THEN lo
    ELSE LET mid == (lo + hi + 1) \div 2
         IN IF mid * mid <= n THEN SqrtSearch(n, mid, hi) ELSE SqrtSearch(n, lo, mid - 1)

\* np.sqrt(h) in units of 10^-4, to the nearest
SqrtE4(h) ==
    LET n == h * HUNDRED * HUNDRED * HUNDRED * HUNDRED
        r == SqrtSearch(n, 0, 40000)
    IN IF n - r * r > r THEN r + 1 ELSE r

\* 0.3 * np.sqrt(month_ahead)
Uncertainty(h) == 3 * SqrtE4(h)

\* 1.96 * uncertainty
HalfWidth(h) == RoundDiv(196 * Uncertainty(h), HUNDRED)

Sub(x, y) == IF IsNaN(x) \/ IsNaN(y) THEN NaN ELSE x - y

---------------------------------------------------------------------------
(* The script *)

\* range(1, 7)
LAST_HORIZON == 6

MaxDate(rows) == CHOOSE d \in {rows[k].date : k \in 1..Len(rows)} :
                     \A k \in 1..Len(rows) : rows[k].date <= d

\* stable insertion of a row by date
RECURSIVE SortByDate(_)
SortByDate(rows) ==
    IF Len(rows) <= 1 THEN rows
    ELSE LET front == SortByDate(DropLast(rows))
             x == rows[Len(rows)]
             n == Cardinality({k \in 1..Len(front) : front[k].date <= x.date})
         IN SubSeq(front, 1, n) \o <<x>> \o SubSeq(front, n + 1, Len(front))

ActualRows(infl) ==
    [k \in 1..Len(infl) |->
        [date |-> infl[k].date, inflation |-> infl[k].inflation, type |-> "actual",
         lower_bound |-> NaN, upper_bound |-> NaN, horizon |-> 0]]

Init ==
    /\ pc = "fetch"
    /\ inflation_df \in Histories
    /\ fetch_outcome = ""
    /\ arabic_monthly = <<>>
    /\ merged = <<>>
    /\ sentiment_lags = <<>>
    /\ inflation_lags = <<>>
    /\ forecasted_sentiment = <<>>
    /\ forecasted_inflation = <<>>
    /\ month_ahead = 0
    /\ forecasts = <<>>
    /\ calls = <<>>
    /\ combined = <<>>
    /\ fn_args = <<>>
    /\ fn_ret = <<>>
    /\ ScrapeIdle

\* What can raise inside the try block before the monthly table is built:
\* read_csv (network), a column access (missing column), to_datetime
\* (unparsable date).
FetchFailures == {"network", "missing_column", "bad_date"}

\* how the try block ended, for the log
FetchOutcome(failure, csv) ==
    IF failure # "none" THEN failure
    ELSE IF DropNeutral(csv) = <<>> THEN "empty" ELSE "ok"

\* the try/except around the download and the aggregation
Fetch ==
    /\ pc = "fetch"
    /\ \E failure \in FetchFailures \cup {"none"}, csv \in CsvFiles :
           /\ arabic_monthly' = FetchSentiment(failure = "none", csv)
           /\ fetch_outcome' = FetchOutcome(failure, csv)
    /\ pc' = "merge"
    /\ UNCHANGED <<inflation_df, merged, sentiment_lags, inflation_lags,
                   forecasted_sentiment, forecasted_inflation, month_ahead,
                   forecasts, calls, combined, fn_args, fn_ret, scrape_vars>>

Merge ==
    /\ pc = "merge"
    /\ merged' = MergeAndFill(inflation_df, arabic_monthly)
    /\ pc' = "lags"
    /\ UNCHANGED <<inflation_df, fetch_outcome, arabic_monthly, sentiment_lags, inflation_lags,
                   forecasted_sentiment, forecasted_inflation, month_ahead,
                   forecasts, calls, combined, fn_args, fn_ret, scrape_vars>>

InitLags ==
    /\ pc = "lags"
    /\ sentiment_lags' = get_lags(Column(merged, "sentiment"), SENTIMENT_LAGS)
    /\ inflation_lags' = get_lags(Column(merged, "inflation"), INFLATION_LAGS)
    /\ forecasted_inflation' = inflation_lags'
    /\ forecasted_sentiment' = sentiment_lags'
    /\ pc' = "loop"
    /\ UNCHANGED <<inflation_df, fetch_outcome, arabic_monthly, merged, month_ahead,
                   forecasts, calls, combined, fn_args, fn_ret, scrape_vars>>

\* the sentiment update without the [:-1]
UpdateSentimentLags_keep_oldest(current_sentiment, lags) == <<current_sentiment>> \o lags

\* [current_sentiment] + forecasted_sentiment[:-1]
UpdateSentimentLags(current_sentiment, lags) == <<current_sentiment>> \o DropLast(lags)

\* the variant without feedback: the inflation lags stay as they are
UpdateInflationLags_static(forecast_value, lags) == lags

\* [forecast_value] + forecasted_inflation[:-1]
UpdateInflationLags(forecast_value, lags) == <<forecast_value>> \o DropLast(lags)

\* the forecast date with the loop counted from 0
ForecastDate_from_zero(last_date, h) == last_date + h - 1

\* the forecast date without the months=month_ahead argument
ForecastDate_next_month(last_date, h) == last_date + 1

\* last_date + relativedelta(months=month_ahead), on first-of-month dates
ForecastDate(last_date, h) == last_date + h

\* one iteration of the for loop
\* The loop step with the forecast computed before the sentiment shift.
ForecastStep_shift_after ==
    /\ pc = "loop"
    /\ month_ahead < LAST_HORIZON
    /\ LET h == month_ahead + 1
           forecast_date == ForecastDate(MaxDate(merged), h)
           current_sentiment == sentiment_lags[1]
           forecast_value == calculate_forecast(forecasted_sentiment, forecasted_inflation)
       IN /\ month_ahead' = h
          /\ forecasted_sentiment' = UpdateSentimentLags(current_sentiment, forecasted_sentiment)
          /\ forecasted_inflation' = UpdateInflationLags(forecast_value, forecasted_inflation)
          /\ calls' = Append(calls, [sentiment |-> forecasted_sentiment,
                                     inflation |-> forecasted_inflation,
                                     value |-> forecast_value])
          /\ forecasts' = Append(forecasts,
                 [date |-> forecast_date, inflation |-> forecast_value,
                  lower_bound |-> Sub(forecast_value, HalfWidth(h)),
                  upper_bound |-> Add(forecast_value, HalfWidth(h)),
                  type |-> "forecast", horizon |-> h])
    /\ UNCHANGED <<pc, inflation_df, fetch_outcome, arabic_monthly, merged,
                   sentiment_lags, inflation_lags, combined, fn_args, fn_ret, scrape_vars>>

\* The loop step written without the copies: the lag lists are updated in
\* place, so the initial lags follow the recursion.
ForecastStep_in_place ==
    /\ pc = "loop"
    /\ month_ahead < LAST_HORIZON
    /\ LET h == month_ahead + 1
           forecast_date == ForecastDate(MaxDate(merged), h)
           current_sentiment == sentiment_lags[1]
           new_sentiment == UpdateSentimentLags(current_sentiment, sentiment_lags)
           forecast_value == calculate_forecast(new_sentiment, inflation_lags)
       IN /\ month_ahead' = h
          /\ sentiment_lags' = new_sentiment
          /\ inflation_lags' = UpdateInflationLags(forecast_value, inflation_lags)
          /\ forecasted_sentiment' = sentiment_lags'
          /\ forecasted_inflation' = inflation_lags'
          /\ calls' = Append(calls, [sentiment |-> new_sentiment,
                                     inflation |-> inflation_lags,
                                     value |-> forecast_value])
          /\ forecasts' = Append(forecasts,
                 [date |-> forecast_date, inflation |-> forecast_value,
                  lower_bound |-> Sub(forecast_value, HalfWidth(h)),
                  upper_bound |-> Add(forecast_value, HalfWidth(h)),
                  type |-> "forecast", horizon |-> h])
    /\ UNCHANGED <<pc, inflation_df, fetch_outcome, arabic_monthly, merged,
                   combined, fn_args, fn_ret, scrape_vars>>

ForecastStep ==
    /\ pc = "loop"
    /\ month_ahead < LAST_HORIZON
    /\ LET h == month_ahead + 1
           forecast_date == ForecastDate(MaxDate(merged), h)
           current_sentiment == sentiment_lags[1]
           new_sentiment == UpdateSentimentLags(current_sentiment, forecasted_sentiment)
           forecast_value == calculate_forecast(new_sentiment, forecasted_inflation)
       IN /\ month_ahead' = h
          /\ forecasted_sentiment' = new_sentiment
          /\ forecasted_inflation' = UpdateInflationLags(forecast_value, forecasted_inflation)
          /\ calls' = Append(calls, [sentiment |-> new_sentiment,
                                     inflation |-> forecasted_inflation,
                                     value |-> forecast_value])
          /\ forecasts' = Append(forecasts,
                 [date |-> forecast_date, inflation |-> forecast_value,
                  lower_bound |-> Sub(forecast_value, HalfWidth(h)),
                  upper_bound |-> Add(forecast_value, HalfWidth(h)),
                  type |-> "forecast", horizon |-> h])
    /\ UNCHANGED <<pc, inflation_df, fetch_outcome, arabic_monthly, merged,
                   sentiment_lags, inflation_lags, combined, fn_args, fn_ret, scrape_vars>>

\* concat, sort by date, write
Output ==
    /\ pc = "loop"
    /\ month_ahead = LAST_HORIZON
    /\ combined' = SortByDate(ActualRows(inflation_df) \o forecasts)
    /\ pc' = "done"
    /\ UNCHANGED <<inflation_df, fetch_outcome, arabic_monthly, merged, sentiment_lags,
                   inflation_lags, forecasted_sentiment, forecasted_inflation,
                   month_ahead, forecasts, calls, fn_args, fn_ret, scrape_vars>>

Next == Fetch \/ Merge \/ InitLags \/ ForecastStep \/ Output

Spec == Init /\ [][Next]_vars

---------------------------------------------------------------------------
(* get_lags and calculate_forecast on their own: the inputs are drawn from *)
(* bounded sets and the function is applied once.                          *)

ScriptIdle ==
    /\ pc = "fn"
    /\ inflation_df = <<>>
    /\ fetch_outcome = ""
    /\ arabic_monthly = <<>>
    /\ merged = <<>>
    /\ sentiment_lags = <<>>
    /\ inflation_lags = <<>>
    /\ forecasted_sentiment = <<>>
    /\ forecasted_inflation = <<>>
    /\ month_ahead = 0
    /\ forecasts = <<>>
    /\ calls = <<>>
    /\ combined = <<>>

MaxSeriesLen == 10
SeriesValues == {10 * TENTH, 25 * TENTH}
SeriesInputs == UNION { [1..n -> SeriesValues] : n \in 0..MaxSeriesLen }

InitLagsFn ==
    /\ ScriptIdle
    /\ ScrapeIdle
    /\ fn_args \in [series : SeriesInputs, n_lags : 1..SENTIMENT_LAGS]
    /\ fn_ret = <<>>

ApplyGetLags ==
    /\ fn_ret = <<>>
    /\ fn_ret' = <<get_lags(fn_args.series, fn_args.n_lags)>>
    /\ UNCHANGED <<script_vars, fn_args, scrape_vars>>

SpecLags == InitLagsFn /\ [][ApplyGetLags]_vars

SentimentValues == {0 - 37 * (ONE \div 100), 0, 5 * ONE}
InflationValues == {0, 123 * TENTH}

InitForecastFn ==
    /\ ScriptIdle
    /\ ScrapeIdle
    /\ fn_args \in [sentiment_lags : [1..SENTIMENT_LAGS -> SentimentValues],
                    inflation_lags : [1..INFLATION_LAGS -> InflationValues]]
    /\ fn_ret = <<>>

ApplyForecast ==
    /\ fn_ret = <<>>
    /\ fn_ret' = <<calculate_forecast(fn_args.sentiment_lags, fn_args.inflation_lags)>>
    /\ UNCHANGED <<script_vars, fn_args, scrape_vars>>

SpecForecast == InitForecastFn /\ [][ApplyForecast]_vars

\* calculate_forecast applied twice: to a pair of lag vectors, and to the
\* same pair with one coordinate multiplied by a factor.
LinearSentimentValues == {0 - 37 * (ONE \div 100), 5 * ONE}
LinearInflationValues == {117 * TENTH, 123 * TENTH}
Factors == {0 - 1, 0, 3}
Coordinates == ({"sentiment"} \X (1..SENTIMENT_LAGS)) \cup ({"inflation"} \X (1..INFLATION_LAGS))

ScaleCoordinate(lags, name, coordinate, factor) ==
    IF coordinate[1] = name
    THEN [lags EXCEPT ![coordinate[2]] = factor * lags[coordinate[2]]]
    ELSE lags

InitLinearFn ==
    /\ ScriptIdle
    /\ ScrapeIdle
    /\ fn_args \in [sentiment_lags : [1..SENTIMENT_LAGS -> LinearSentimentValues],
                    inflation_lags : [1..INFLATION_LAGS -> LinearInflationValues],
                    coordinate : Coordinates,
                    factor : Factors]
    /\ fn_ret = <<>>

ApplyForecastTwice ==
    /\ fn_ret = <<>>
    /\ fn_ret' = << calculate_forecast(fn_args.sentiment_lags, fn_args.inflation_lags),
                    calculate_forecast(
                        ScaleCoordinate(fn_args.sentiment_lags, "sentiment",
                                        fn_args.coordinate, fn_args.factor),
                        ScaleCoordinate(fn_args.inflation_lags, "inflation",
                                        fn_args.coordinate, fn_args.factor)) >>
    /\ UNCHANGED <<script_vars, fn_args, scrape_vars>>

SpecLinear == InitLinearFn /\ [][ApplyForecastTwice]_vars

---------------------------------------------------------------------------
(* The news scrapers (scrape.py, scraper_with_sentiment.py)                *)
(*                                                                         *)
(* Both append to the same CSV, data/egyptian_news.csv.  A CSV row is      *)
(* modelled by its url column.  One action is one whole run of             *)
(* scrape_and_update; what the network and the file system answer during   *)
(* the run are its inputs.                                                 *)

URLS == {"a", "b"}
MaxRuns == 2
MaxPages == 2
MaxPerPage == 2

\* the answer to one search-page request: the hrefs of its entry-title
\* elements, each of which carries a link; ok = FALSE when requests.get or
\* the parse raises
PageResults ==
    {[ok |-> TRUE, titles |-> s] : s \in UNION {[1..n -> URLS] : n \in 0..MaxPerPage}}
        \cup {[ok |-> FALSE, titles |-> <<>>]}

Rows(csv) == {csv.rows[k] : k \in 1..Len(csv.rows)}

DuplicateFree(rows) == \A a, b \in 1..Len(rows) : a # b => rows[a] # rows[b]

\* readable = FALSE: opening or reading the existing file raises and the
\* empty set is returned
load_existing_urls(csv, readable) ==
    IF csv.exists /\ readable THEN Rows(csv) ELSE {}

\* pages in order; stops at the first page that raises or has no entry-title
RECURSIVE get_article_urls(_)
get_article_urls(pages) ==
    IF pages = <<>> THEN <<>>
    ELSE LET page == Head(pages)
         IN IF ~page.ok \/ page.titles = <<>> THEN <<>>
            ELSE page.titles \o get_article_urls(Tail(pages))

\* [url for url in all_urls if url not in existing_urls]
NewUrls(all_urls, existing_urls) ==
    SelectSeq(all_urls, LAMBDA url : url \notin existing_urls)

\* the scraping loop: scrape_article_details returns None for a url whose
\* request raises
NewArticles(new_urls, reachable) ==
    SelectSeq(new_urls, LAMBDA url : url \in reachable)

\* open(csv_file, 'a') and one writerow per new article
AppendRows(csv, new_articles) ==
    [exists |-> TRUE, rows |-> csv.rows \o new_articles]

RunLog(name, readable, pages, new_articles, opened) ==
    << [script        |-> name,
        scrape_py_only |-> /\ name = "scrape"
                           /\ (last_run = <<>> \/ last_run[1].scrape_py_only),
        csv_before    |-> csv_file,
        existing_urls |-> load_existing_urls(csv_file, readable),
        all_urls      |-> get_article_urls(pages),
        new_urls      |-> NewUrls(get_article_urls(pages),
                                  load_existing_urls(csv_file, readable)),
        written       |-> IF opened THEN new_articles ELSE <<>>,
        opened        |-> opened] >>

\* scrape.py
scrape_and_update ==
    /\ pc = "scrape"
    /\ run_count < MaxRuns
    /\ \E readable \in BOOLEAN, pages \in [1..MaxPages -> PageResults],
          reachable \in SUBSET URLS :
          LET existing_urls == load_existing_urls(csv_file, readable)
              all_urls == get_article_urls(pages)
              new_urls == NewUrls(all_urls, existing_urls)
              new_articles == NewArticles(new_urls, reachable)
              opened == new_urls # <<>>
          IN /\ csv_file' = IF opened THEN AppendRows(csv_file, new_articles)
                            ELSE csv_file
             /\ last_run' = RunLog("scrape", readable, pages, new_articles, opened)
    /\ run_count' = run_count + 1
    /\ UNCHANGED <<script_vars, fn_vars>>

\* scraper_with_sentiment.py: an article is kept when it was scraped and
\* is_inflation_related; nothing is opened when no article is left
scrape_and_update_with_sentiment ==
    /\ pc = "scrape"
    /\ run_count < MaxRuns
    /\ \E readable \in BOOLEAN, pages \in [1..MaxPages -> PageResults],
          kept \in SUBSET URLS :
          LET existing_urls == load_existing_urls(csv_file, readable)
              all_urls == get_article_urls(pages)
              new_urls == NewUrls(all_urls, existing_urls)
              new_articles == NewArticles(new_urls, kept)
              opened == new_urls # <<>> /\ new_articles # <<>>
          IN /\ csv_file' = IF opened THEN AppendRows(csv_file, new_articles)
                            ELSE csv_file
             /\ last_run' = RunLog("scraper_with_sentiment", readable, pages,
                                   new_articles, opened)
    /\ run_count' = run_count + 1
    /\ UNCHANGED <<script_vars, fn_vars>>

\* the CSV is absent, or holds any duplicate-free rows
InitScrape ==
    /\ pc = "scrape"
    /\ inflation_df = <<>>
    /\ fetch_outcome = ""
    /\ arabic_monthly = <<>>
    /\ merged = <<>>
    /\ sentiment_lags = <<>>
    /\ inflation_lags = <<>>
    /\ forecasted_sentiment = <<>>
    /\ forecasted_inflation = <<>>
    /\ month_ahead = 0
    /\ forecasts = <<>>
    /\ calls = <<>>
    /\ combined = <<>>
    /\ fn_args = <<>>
    /\ fn_ret = <<>>
    /\ csv_file \in {[exists |-> FALSE, rows |-> <<>>]} \cup
                    {[exists |-> TRUE, rows |-> r] :
                        r \in {s \in UNION {[1..n -> URLS] : n \in 0..Cardinality(URLS)} :
                                  DuplicateFree(s)}}
    /\ last_run = <<>>
    /\ run_count = 0

SpecScrape == InitScrape /\ [][scrape_and_update \/ scrape_and_update_with_sentiment]_vars

---------------------------------------------------------------------------
(* The taxi meter image (app.py)                                           *)
(*                                                                         *)
(* A string is a sequence of one-character strings.  The picture is        *)
(* modelled by what was painted on it: one [x, glyph] per position, glyph  *)
(* being a digit character or "null" for the blank digit image.            *)

DIGIT_WIDTH == 48
SPACING == 4
START_X == 238
FARE_LENGTH == 5

DigitChars == <<"0", "1", "2", "3", "4", "5", "6", "7", "8", "9">>

\* the keys of the dict digits: str(i) for i in range(10)
DigitKeys == {DigitChars[i] : i \in 1..10}

\* str() of an int
RECURSIVE StrNat(_)
StrNat(n) ==
    IF n < 10 THEN <<DigitChars[n + 1]>>
    ELSE Append(StrNat(n \div 10), DigitChars[(n % 10) + 1])

str(n) == IF n < 0 THEN <<"-">> \o StrNat(0 - n) ELSE StrNat(n)

\* fare_str after lines 33-37
FareStr(fare_value) ==
    LET fare_str == str(fare_value)
    IN IF Len(fare_str) > FARE_LENGTH
       THEN SubSeq(fare_str, Len(fare_str) - FARE_LENGTH + 1, Len(fare_str))
       ELSE IF Len(fare_str) < FARE_LENGTH
       THEN Repeat(" ", FARE_LENGTH - Len(fare_str)) \o fare_str
       ELSE fare_str

\* the loop over fare_str: digits[digit_char] raises KeyError for a
\* character that is neither ' ' nor a digit, after the positions before it
\* were painted
RECURSIVE PaintDigits(_, _)
PaintDigits(fare_str, x_pos) ==
    IF fare_str = <<>> THEN [raised |-> FALSE, painted |-> <<>>]
    ELSE LET digit_char == Head(fare_str)
         IN IF digit_char # " " /\ digit_char \notin DigitKeys
            THEN [raised |-> TRUE, painted |-> <<>>]
            ELSE LET rest == PaintDigits(Tail(fare_str), x_pos + DIGIT_WIDTH + SPACING)
                 IN [raised |-> rest.raised,
                     painted |-> << [x |-> x_pos,
                                     glyph |-> IF digit_char = " " THEN "null"
                                               ELSE digit_char] >> \o rest.painted]

\* result "None": an image file is missing; "KeyError": the loop raised;
\* "meter": the picture is returned
create_meter_with_fare(fare_value, images_loaded) ==
    IF ~images_loaded THEN [result |-> "None", painted |-> <<>>]
    ELSE LET loop == PaintDigits(FareStr(fare_value), START_X)
         IN [result |-> IF loop.raised THEN "KeyError" ELSE "meter",
             painted |-> loop.painted]

\* the route /update_meter: 200 with the picture, 500 otherwise
update_meter_response(fare, images_loaded) ==
    LET meter_img == create_meter_with_fare(fare, images_loaded)
    IN [status |-> IF meter_img.result = "meter" THEN 200 ELSE 500,
        meter  |-> meter_img]

\* the JSON field fare after int()
Fares == (0 - 12)..30 \cup
         {0 - 1234567, 0 - 123456, 0 - 1234, 999, 1000, 9999, 10000, 12345,
          99999, 100000, 123456, 1234567}

InitMeterFn ==
    /\ ScriptIdle
    /\ ScrapeIdle
    /\ fn_args \in [fare : Fares, images_loaded : BOOLEAN]
    /\ fn_ret = <<>>

update_meter ==
    /\ fn_ret = <<>>
    /\ fn_ret' = << update_meter_response(fn_args.fare, fn_args.images_loaded) >>
    /\ UNCHANGED <<script_vars, fn_args, scrape_vars>>

SpecMeter == InitMeterFn /\ [][update_meter]_vars

---------------------------------------------------------------------------
(* Properties *)

\* q is x / den to the nearest unit (ties upward), den > 0
IsNearest(q, x, den) == (0 - den) <= 2 * (x - den * q) /\ 2 * (x - den * q) < den
Nearest(x, den) == CHOOSE q \in {x \div den, (x \div den) + 1} : IsNearest(q, x, den)

\* C1: for every 9-element sentiment lag vector s and 4-element inflation lag
\* vector i, calculate_forecast(s, i) is 0.5 + 0.03 * (1.00 s0 + 0.70 s1 +
\* 0.49 s2 + 0.34 s3 + 0.24 s4 + 0.17 s5 + 0.12 s6 + 0.08 s7 + 0.06 s8)
\* + (0.60 i0 + 0.25 i1 + 0.10 i2 + 0.05 i3), each of the two sums taken to
\* the nearest unit of 10^-5.
C1_ForecastFormula ==
    fn_ret # <<>> =>
        LET s == fn_args.sentiment_lags
            i == fn_args.inflation_lags
            ws == 100 * s[1] + 70 * s[2] + 49 * s[3] + 34 * s[4] + 24 * s[5]
                  + 17 * s[6] + 12 * s[7] + 8 * s[8] + 6 * s[9]
            wi == 60 * i[1] + 25 * i[2] + 10 * i[3] + 5 * i[4]
        IN fn_ret[1] = 50000 + Nearest(3 * ws, 10000) + Nearest(wi, 100)

C1_Witness ==
    /\ fn_ret # <<>>
    /\ fn_args.sentiment_lags[1] < 0
    /\ fn_args.sentiment_lags[2] > 0
    /\ fn_args.sentiment_lags[9] < 0
    /\ fn_args.inflation_lags[1] > 0
    /\ fn_args.inflation_lags[4] = 0
    /\ fn_ret[1] > 50000

\* C2 as the specification states it: with the table of the source and all
\* sentiment at 5.0 (the fallback), the initial inflation lags are
\* [12.3, 12.3, 12.5, 11.7], the nine sentiment lags are 5.0, the nine
\* sentiment weights sum to 3.70, the sentiment term of step 1 is 0.555, the
\* inflation term is 12.305 and the step-1 forecast is 13.36 to two decimals.
C2_EndToEndExample ==
    (inflation_df = MONTHLY_INFLATION /\ arabic_monthly = FallbackMonthly /\ Len(calls) >= 1) =>
        /\ inflation_lags = <<1230000, 1230000, 1250000, 1170000>>
        /\ sentiment_lags = <<500000, 500000, 500000, 500000, 500000,
                              500000, 500000, 500000, 500000>>
        /\ calls[1].inflation = inflation_lags
        /\ calls[1].sentiment = sentiment_lags
        /\ SumSeq(SENTIMENT_WEIGHTS) = 370
        /\ sentiment_effect(calls[1].sentiment) = 55500
        /\ inflation_momentum(calls[1].inflation) = 1230500
        /\ Nearest(calls[1].value, 1000) = 1336
        /\ forecasts[1].inflation = calls[1].value

\* C2 (amended): with the same inputs the nine sentiment weights sum to 3.20,
\* the sentiment term of step 1 is 0.48, the inflation term is 12.29 and the
\* step-1 forecast is 13.27 to two decimal places.
C2_EndToEndAmended ==
    (inflation_df = MONTHLY_INFLATION /\ arabic_monthly = FallbackMonthly /\ Len(calls) >= 1) =>
        /\ inflation_lags = <<1230000, 1230000, 1250000, 1170000>>
        /\ sentiment_lags = <<500000, 500000, 500000, 500000, 500000,
                              500000, 500000, 500000, 500000>>
        /\ calls[1].inflation = inflation_lags
        /\ calls[1].sentiment = sentiment_lags
        /\ SumSeq(SENTIMENT_WEIGHTS) = 320
        /\ sentiment_effect(calls[1].sentiment) = 48000
        /\ inflation_momentum(calls[1].inflation) = 1229000
        /\ Nearest(calls[1].value, 1000) = 1327
        /\ forecasts[1].inflation = calls[1].value

C2_Witness ==
    /\ inflation_df = MONTHLY_INFLATION
    /\ arabic_monthly = FallbackMonthly
    /\ Len(calls) = 1
    /\ calls[1].value = 1327000

\* C3: at every step h in 2..6 the inflation lag vector fed to
\* calculate_forecast is value_(h-1) followed by the first three elements of
\* the vector used at step h-1, and has length 4; step 1 uses the initial
\* inflation lags, and value_2 = calculate_forecast(sentiment vector of step
\* 2, [value_1, inflation_lags[0], inflation_lags[1], inflation_lags[2]]).
C3_RecursiveFeedback ==
    /\ \A h \in 1..Len(calls) :
          /\ Len(calls[h].inflation) = 4
          /\ forecasts[h].inflation = calls[h].value
          /\ h = 1 => calls[h].inflation = inflation_lags
          /\ h >= 2 => calls[h].inflation =
                          <<forecasts[h - 1].inflation>> \o SubSeq(calls[h - 1].inflation, 1, 3)
    /\ Len(calls) >= 2 =>
          forecasts[2].inflation =
              calculate_forecast(calls[2].sentiment,
                                 <<forecasts[1].inflation, inflation_lags[1],
                                   inflation_lags[2], inflation_lags[3]>>)

C3_Witness ==
    /\ Len(calls) = 6
    /\ ~IsNaN(forecasts[1].inflation)
    /\ calls[2].inflation[1] # inflation_lags[1]
    /\ calls[6].inflation = <<forecasts[5].inflation, forecasts[4].inflation,
                              forecasts[3].inflation, forecasts[2].inflation>>

\* C4: at every step h in 1..6 the sentiment lag vector is the previous
\* step's vector (the initial lags at step 1) with the most recent real
\* sentiment value (element 0 of the initial lags, the last merged sentiment)
\* prepended and the oldest element dropped; it has length 9 and each of its
\* elements is one of the initial sentiment lags.
C4_SentimentPersistence ==
    \A h \in 1..Len(calls) :
        LET prev == IF h = 1 THEN sentiment_lags ELSE calls[h - 1].sentiment
        IN /\ Len(calls[h].sentiment) = 9
           /\ calls[h].sentiment[1] = sentiment_lags[1]
           /\ sentiment_lags[1] = merged[Len(merged)].sentiment
           /\ \A k \in 2..9 : calls[h].sentiment[k] = prev[k - 1]
           /\ \A k \in 1..9 : \E j \in 1..9 : calls[h].sentiment[k] = sentiment_lags[j]

C4_Witness ==
    /\ Len(calls) = 6
    /\ ~IsNaN(sentiment_lags[1])
    /\ sentiment_lags[1] # sentiment_lags[3]
    /\ calls[6].sentiment # calls[1].sentiment
    /\ forecasts[6].inflation # sentiment_lags[1]

\* C5: with the table of the source, step 2 uses inflation lags
\* [value_1, 12.3, 12.3, 12.5], and the sentiment lag vector is the same at
\* every step of the run.
C5_StepTwoLags ==
    inflation_df = MONTHLY_INFLATION =>
        /\ Len(calls) >= 2 =>
              calls[2].inflation = <<forecasts[1].inflation, 1230000, 1230000, 1250000>>
        /\ \A h \in 1..Len(calls) : calls[h].sentiment = calls[1].sentiment

C5_Witness ==
    /\ inflation_df = MONTHLY_INFLATION
    /\ Len(calls) = 6
    /\ arabic_monthly # FallbackMonthly
    /\ merged[1].sentiment # merged[7].sentiment
    /\ calls[6].sentiment = calls[1].sentiment

\* C6: for a series with at least one and fewer than N observations,
\* get_lags(series, N) is the observations most recent first, followed by
\* the oldest observation repeated up to length N.
C6_PadWithOldest ==
    (fn_ret # <<>> /\ Len(fn_args.series) > 0 /\ Len(fn_args.series) < fn_args.n_lags) =>
        LET series == fn_args.series
            n == Len(series)
        IN /\ Len(fn_ret[1]) = fn_args.n_lags
           /\ \A k \in 1..n : fn_ret[1][k] = series[n + 1 - k]
           /\ \A k \in (n + 1)..fn_args.n_lags : fn_ret[1][k] = series[1]

\* C7: for a series with at least N observations, get_lags(series, N) is the
\* last N values in reverse order: element 0 the most recent, element N-1
\* the oldest of the N.
C7_TailReversed ==
    (fn_ret # <<>> /\ Len(fn_args.series) >= fn_args.n_lags) =>
        /\ Len(fn_ret[1]) = fn_args.n_lags
        /\ \A k \in 1..fn_args.n_lags :
              fn_ret[1][k] = fn_args.series[Len(fn_args.series) + 1 - k]

C7_Witness ==
    /\ fn_ret # <<>>
    /\ fn_args.n_lags = 9
    /\ Len(fn_args.series) = 10
    /\ fn_ret[1][1] # fn_ret[1][9]
    /\ fn_args.series[1] # fn_args.series[2]

\* C8: get_lags returns a list of exactly n_lags elements for every series
\* length, 0 included: n_lags copies of the most recent value for a
\* non-empty series shorter than n_lags, n_lags copies of 0 for an empty one.
C8_AlwaysNLags ==
    fn_ret # <<>> =>
        LET series == fn_args.series
        IN /\ DOMAIN fn_ret[1] = 1..fn_args.n_lags
           /\ (Len(series) > 0 /\ Len(series) < fn_args.n_lags) =>
                 \A k \in 1..fn_args.n_lags : fn_ret[1][k] = series[Len(series)]
           /\ Len(series) = 0 =>
                 \A k \in 1..fn_args.n_lags : fn_ret[1][k] = 0

C8_Witness ==
    /\ fn_ret # <<>>
    /\ fn_args.series = <<>>
    /\ fn_args.n_lags = 4
    /\ fn_ret[1] = <<0, 0, 0, 0>>

\* C9: for a series of length 1 with value s, get_lags(series, 9) is
\* [s, s, s, s, s, s, s, s, s].
C9_SingleObservation ==
    (fn_ret # <<>> /\ Len(fn_args.series) = 1 /\ fn_args.n_lags = 9) =>
        LET s == fn_args.series[1]
        IN fn_ret[1] = <<s, s, s, s, s, s, s, s, s>>

C9_Witness ==
    /\ fn_ret # <<>>
    /\ fn_args.series = <<250000>>
    /\ fn_args.n_lags = 9
    /\ fn_ret[1][9] = 250000

\* C10: after the left merge and ffill().bfill() no row of the merged series
\* has a null sentiment, whatever months the sentiment source covers, and
\* the lag vectors the forecast consumes contain no null.
C10_NoNullSentiment ==
    /\ pc \in {"lags", "loop", "done"} =>
          \A k \in 1..Len(merged) : ~IsNaN(merged[k].sentiment)
    /\ pc \in {"loop", "done"} =>
          /\ \A k \in 1..Len(sentiment_lags) : ~IsNaN(sentiment_lags[k])
          /\ \A k \in 1..Len(inflation_lags) : ~IsNaN(inflation_lags[k])

\* C11: the loop emits exactly 6 forecast observations and then stops; the
\* h-th one (h = 1..6, in that order) has horizon h, type 'forecast' and the
\* date of the last historical month plus h months, so each horizon 1..6
\* appears exactly once.
C11_SixForecasts ==
    /\ Len(forecasts) <= 6
    /\ Len(forecasts) = month_ahead
    /\ pc = "done" => Len(forecasts) = 6
    /\ \A h \in 1..Len(forecasts) :
          /\ forecasts[h].horizon = h
          /\ forecasts[h].type = "forecast"
          /\ forecasts[h].date = inflation_df[Len(inflation_df)].date + h

C11_Witness ==
    /\ pc = "done"
    /\ Len(forecasts) = 6
    /\ inflation_df = MONTHLY_INFLATION
    /\ forecasts[1].date = 13
    /\ forecasts[6].date = 18
    /\ forecasts[6].horizon = 6

\* C12: for every horizon h in 1..6 the band is symmetric around the point
\* forecast, upper_bound - value_h = value_h - lower_bound = 1.96 * 0.3 *
\* sqrt(h) (here: its square is 0.588^2 * h to within the resolution), and
\* the width upper_bound - lower_bound strictly increases with h, whatever
\* the forecast values are.
C12_SymmetricWideningBand ==
    \A h \in 1..Len(forecasts) :
        LET f == forecasts[h]
            up == f.upper_bound - f.inflation
            down == f.inflation - f.lower_bound
            tens == up \div 10
        IN /\ ~IsNaN(f.lower_bound) /\ ~IsNaN(f.upper_bound)
           /\ up = down
           /\ (tens - 1) * (tens - 1) <= 5880 * 5880 * h
           /\ 5880 * 5880 * h <= (tens + 2) * (tens + 2)
           /\ h >= 2 => (f.upper_bound - f.lower_bound) >
                           (forecasts[h - 1].upper_bound - forecasts[h - 1].lower_bound)

\* C13: calculate_forecast applied to nine sentiment lags equal to 0 and four
\* inflation lags equal to 0 returns exactly the intercept, 0.5.
C13_ZeroLagsGiveIntercept ==
    (/\ fn_ret # <<>>
     /\ \A k \in 1..9 : fn_args.sentiment_lags[k] = 0
     /\ \A j \in 1..4 : fn_args.inflation_lags[j] = 0) => fn_ret[1] = 50000

C13_Witness ==
    /\ fn_ret = <<50000>>
    /\ fn_args.sentiment_lags = <<0, 0, 0, 0, 0, 0, 0, 0, 0>>
    /\ fn_args.inflation_lags = <<0, 0, 0, 0>>

\* C14: calculate_forecast is linear in each coordinate separately.  Replacing
\* one sentiment lag s[k] by c * s[k] changes the result by 0.03 * w_k *
\* (c - 1) * s[k], w = [1.00, 0.70, 0.49, 0.34, 0.24, 0.17, 0.12, 0.08, 0.06];
\* replacing one inflation lag i[j] by c * i[j] changes it by v_j * (c - 1) *
\* i[j], v = [0.60, 0.25, 0.10, 0.05]; the other coordinates held fixed.  The
\* change is exact when it is a whole number of units of 10^-5 and within one
\* unit otherwise.
C14_LinearInEachCoordinate ==
    fn_ret # <<>> =>
        LET w == <<100, 70, 49, 34, 24, 17, 12, 8, 6>>
            v == <<60, 25, 10, 5>>
            k == fn_args.coordinate[2]
            c == fn_args.factor
            change == fn_ret[2] - fn_ret[1]
            \* the claimed change, times den
            den == IF fn_args.coordinate[1] = "sentiment" THEN 10000 ELSE 100
            claimed == IF fn_args.coordinate[1] = "sentiment"
                       THEN 3 * w[k] * (c - 1) * fn_args.sentiment_lags[k]
                       ELSE v[k] * (c - 1) * fn_args.inflation_lags[k]
        IN /\ den * change - claimed < den
           /\ claimed - den * change < den
           /\ claimed % den = 0 => den * change = claimed

C14_Witness ==
    /\ fn_ret # <<>>
    /\ fn_args.coordinate = <<"sentiment", 3>>
    /\ fn_args.factor = 3
    /\ fn_args.sentiment_lags[3] = 500000
    /\ fn_args.sentiment_lags[1] < 0
    /\ fn_ret[2] - fn_ret[1] = 14700


\* C15: the combined output (historical rows, then the six forecast rows,
\* sorted by date) has one row per date and strictly increasing dates: every
\* forecast date is later than every historical date and no two forecast
\* dates coincide.
C15_OneRowPerDate ==
    pc = "done" =>
        /\ Len(combined) = Len(inflation_df) + 6
        /\ \A k \in 1..(Len(combined) - 1) : combined[k].date < combined[k + 1].date
        /\ \A a \in 1..Len(forecasts), b \in 1..Len(inflation_df) :
               forecasts[a].date > inflation_df[b].date
        /\ \A a, b \in 1..Len(forecasts) :
               a # b => forecasts[a].date # forecasts[b].date

C15_Witness ==
    /\ pc = "done"
    /\ Len(inflation_df) = 10
    /\ Len(combined) = 16
    /\ combined[10].date = 12 /\ combined[10].type = "actual"
    /\ combined[11].date = 13 /\ combined[11].type = "forecast"
    /\ combined[16].date = 18


\* C16: in the combined output every row of type 'forecast' has non-null
\* lower_bound and upper_bound and horizon >= 1, and every row of type
\* 'actual' has horizon 0 and null lower_bound and upper_bound.
C16_BoundsByRowType ==
    \A k \in 1..Len(combined) :
        LET row == combined[k]
        IN /\ row.type = "forecast" =>
                 /\ ~IsNaN(row.lower_bound)
                 /\ ~IsNaN(row.upper_bound)
                 /\ row.horizon >= 1
           /\ row.type = "actual" =>
                 /\ IsNaN(row.lower_bound)
                 /\ IsNaN(row.upper_bound)
                 /\ row.horizon = 0


C19_FallbackOnAnyFailure ==
    fetch_outcome \in {"network", "missing_column", "bad_date", "empty"} =>
        /\ Len(arabic_monthly) = 7
        /\ \A k \in 1..7 : arabic_monthly[k] = [date |-> 5 + k, sentiment |-> 500000]
        /\ \A k \in 1..Len(merged) : merged[k].sentiment = 500000
        /\ \A k \in 1..Len(sentiment_lags) : sentiment_lags[k] = 500000
        /\ pc = "done" =>
              /\ Len(forecasts) = 6
              /\ \A h \in 1..6 : ~IsNaN(forecasts[h].inflation)

C19_Witness ==
    /\ pc = "done"
    /\ fetch_outcome = "empty"
    /\ arabic_monthly[1] = [date |-> 6, sentiment |-> 500000]
    /\ Len(merged) = 10
    /\ merged[1].sentiment = 500000
    /\ Len(forecasts) = 6


\* C20: the merged series has exactly one row per historical inflation month,
\* in the same order and with the same inflation values as the inflation
\* series; sentiment months outside the inflation calendar add no rows and
\* sentiment never duplicates an inflation row.
C20_MergedFollowsInflationCalendar ==
    pc \in {"lags", "loop", "done"} =>
        /\ Len(merged) = Len(inflation_df)
        /\ \A k \in 1..Len(inflation_df) :
              /\ merged[k].date = inflation_df[k].date
              /\ merged[k].inflation = inflation_df[k].inflation
        /\ \A a, b \in 1..Len(merged) : a # b => merged[a].date # merged[b].date
        /\ \A a, b \in 1..Len(arabic_monthly) :
              a # b => arabic_monthly[a].date # arabic_monthly[b].date

C20_Witness ==
    /\ pc = "lags"
    /\ inflation_df = MONTHLY_INFLATION
    /\ Len(arabic_monthly) = 3
    /\ arabic_monthly[1].date = 2
    /\ arabic_monthly[2].date = 6
    /\ arabic_monthly[3].date = 13
    /\ Len(merged) = 7
    /\ ~IsNaN(merged[1].sentiment)


\* C23: the sentiment lag vector is shifted before the first forecast is
\* computed.  With [s0, ..., s8] the initial lags, the vector fed to
\* calculate_forecast at step h is h+1 copies of s0 followed by
\* s1..s(8-h); step 1 uses [s0, s0, s1, ..., s7], so the oldest initial lag
\* s8 is in no vector a forecast value is computed from.
C23_ShiftBeforeFirstForecast ==
    \A h \in 1..Len(calls) :
        /\ forecasts[h].inflation = calls[h].value
        /\ Len(calls[h].sentiment) = 9
        /\ \A k \in 1..9 :
              calls[h].sentiment[k] =
                  IF k <= h + 1 THEN sentiment_lags[1] ELSE sentiment_lags[k - h]
        /\ h = 1 => calls[1].sentiment =
                       <<sentiment_lags[1]>> \o SubSeq(sentiment_lags, 1, 8)

C23_Witness ==
    /\ Len(calls) = 6
    /\ Len(inflation_df) = 10
    /\ ~IsNaN(sentiment_lags[1])
    /\ sentiment_lags[2] # sentiment_lags[3]
    /\ sentiment_lags[9] # sentiment_lags[1]
    /\ calls[1].sentiment[4] = sentiment_lags[3]
    /\ calls[1].sentiment[3] # sentiment_lags[3]
    /\ calls[6].sentiment[9] = sentiment_lags[3]


\* C24: the four inflation weights sum to 1 and the intercept is 0.5, so
\* whenever all nine sentiment lags fed into a step are non-negative, the
\* forecast value of that step is at least 0.5 greater than the minimum of
\* the four inflation lags fed into it; the forecasts of the loop then stay
\* above the smallest recent value.
C24_AboveSmallestLag ==
    /\ 60 + 25 + 10 + 5 = 100
    /\ \A h \in 1..Len(calls) :
          (\A k \in 1..9 : calls[h].sentiment[k] >= 0) =>
              /\ \A j \in 1..4 : ~IsNaN(calls[h].inflation[j])
              /\ \E j \in 1..4 :
                    /\ \A i \in 1..4 : calls[h].inflation[j] <= calls[h].inflation[i]
                    /\ calls[h].value >= calls[h].inflation[j] + 50000
                    /\ forecasts[h].inflation >= calls[h].inflation[j] + 50000

C24_Witness ==
    /\ Len(calls) = 6
    /\ fetch_outcome = "ok"
    /\ Len(inflation_df) = 3
    /\ \A k \in 1..9 : calls[1].sentiment[k] >= 0
    /\ calls[1].sentiment[1] > 0
    /\ calls[1].inflation[1] = 1230000
    /\ calls[1].value > 1280000
    /\ calls[6].value > calls[1].value


\* C21: scrape_and_update (either scraper) never appends an article whose
\* URL was already in the CSV when the run started: every URL it writes is
\* absent from the CSV as it was before the run and from the set returned by
\* load_existing_urls; and when no new URL is found it returns without
\* opening or changing the CSV.
C21_NeverAppendsKnownUrl ==
    last_run # <<>> =>
        LET run == last_run[1]
        IN /\ \A k \in 1..Len(run.written) :
                 /\ run.written[k] \notin run.existing_urls
                 /\ \A j \in 1..Len(run.csv_before.rows) :
                       run.written[k] # run.csv_before.rows[j]
           /\ run.new_urls = <<>> => (~run.opened /\ csv_file = run.csv_before)


\* C22: starting from an absent or duplicate-free CSV, after any sequence of
\* scrape_and_update runs of scrape.py no URL is in more than one row of the
\* CSV, also when a search returns the same URL on two pages or twice on one
\* page within a run.
C22_NoUrlInTwoRows ==
    (last_run # <<>> /\ last_run[1].scrape_py_only) =>
        \A a, b \in 1..Len(csv_file.rows) :
            a # b => csv_file.rows[a] # csv_file.rows[b]


\* C25: create_meter_with_fare (the image files being present) always
\* renders exactly five character positions, 52 pixels apart from x = 238:
\* a fare whose decimal string is shorter than five characters is
\* right-aligned with null-digit positions on its left, a five-character
\* fare is rendered as is, and a longer one as its last five characters.
C25_FiveCharacterPositions ==
    (fn_ret # <<>> /\ fn_args.images_loaded) =>
        LET meter == fn_ret[1].meter
            fare == fn_args.fare
            n == IF fare < 0 THEN 0 - fare ELSE fare
            unit == <<10000, 1000, 100, 10, 1>>
            digit == <<"0", "1", "2", "3", "4", "5", "6", "7", "8", "9">>
        IN /\ meter.result = "meter"
           /\ Len(meter.painted) = 5
           /\ \A k \in 1..5 :
                 /\ meter.painted[k].x = 238 + 52 * (k - 1)
                 /\ (fare >= 0 \/ n >= 100000) =>
                       meter.painted[k].glyph =
                           IF n >= unit[k] \/ k = 5
                           THEN digit[((n \div unit[k]) % 10) + 1]
                           ELSE "null"

=============================================================================
